---- MODULE Spec2Model ----
(***************************************************************************)
(* Shortest Path Route Planner (streamlit_app.py).                         *)
(*                                                                         *)
(* The script builds an undirected graph G from the dict `edges`, runs     *)
(* Dijkstra's algorithm on G from "Origin" to "Destination", then builds   *)
(* and solves a binary flow-balance program with one variable per key of   *)
(* `edges`, decodes the selected keys into a route and reports success.    *)
(* The dict `edges` is the input of the run; the dict the script ships     *)
(* with (BuiltinEdges) is one of the inputs explored.                      *)
(***************************************************************************)
EXTENDS Integers, Sequences, FiniteSets, TLC

VARIABLES edges, pc, raised, G, search, shortest_path, shortest_distance,
          model, x, status, opt_path, opt_path_str, opt_distance

vars == <<edges, pc, raised, G, search, shortest_path, shortest_distance,
          model, x, status, opt_path, opt_path_str, opt_distance>>

(***************************************************************************)
(* Bounds of the explored inputs.                                          *)
(***************************************************************************)
MaxEdges == 2

MaxWeight == 1

MaxFlowEdges == 4

MaxRawEdges == 2

SmallTowns == {"Origin", "A", "B", "Destination"}

AllTowns == {"Origin", "A", "B", "C", "D", "E", "Destination"}

(***************************************************************************)
(* An entry of the dict `edges`: key (u, v), value w.                      *)
(***************************************************************************)
Edge(u, v, w) == <<u, v, w>>

BuiltinEdges ==
    << Edge("Origin", "A", 40), Edge("Origin", "B", 60), Edge("Origin", "C", 50),
       Edge("A", "B", 10), Edge("A", "D", 70), Edge("B", "C", 20),
       Edge("B", "D", 55), Edge("B", "E", 40), Edge("C", "E", 50),
       Edge("D", "E", 10), Edge("D", "Destination", 60),
       Edge("E", "Destination", 80) >>

Idx(es) == 1..Len(es)

RECURSIVE SumOver(_, _)
SumOver(f, S) ==
    IF S = {} THEN 0
    ELSE LET i == CHOOSE j \in S : TRUE IN f[i] + SumOver(f, S \ {i})

(* towns = sorted(set(t for edge in edges for t in edge)); the order of the *)
(* sorted list only fixes the order in which the constraints are added.     *)
towns(es) == {es[i][1] : i \in Idx(es)} \cup {es[i][2] : i \in Idx(es)}

(***************************************************************************)
(* G = nx.Graph(); G.add_edge(u, v, weight=w) for every entry, in order.   *)
(* adj[n] lists the neighbours of n in the order they were first added;    *)
(* an edge added again keeps its place and takes the new weight.           *)
(***************************************************************************)
EmptyGraph == [nodes |-> {}, adj |-> [n \in AllTowns |-> << >>], weight |-> << >>]

InSeq(s, e) == \E i \in 1..Len(s) : s[i] = e

AddNeighbour(adj, u, v) ==
    IF InSeq(adj[u], v) THEN adj ELSE [adj EXCEPT ![u] = Append(@, v)]

(* variant: a directed graph, the entry usable from u to v only *)
add_edge_Directed(g, u, v, w) ==
    [nodes  |-> g.nodes \cup {u, v},
     adj    |-> AddNeighbour(g.adj, u, v),
     weight |-> (<<u, v>> :> w) @@ g.weight]

add_edge(g, u, v, w) ==
    [nodes  |-> g.nodes \cup {u, v},
     adj    |-> AddNeighbour(AddNeighbour(g.adj, u, v), v, u),
     weight |-> (<<u, v>> :> w) @@ (<<v, u>> :> w) @@ g.weight]

RECURSIVE BuildGraphFrom(_, _, _)
BuildGraphFrom(g, es, i) ==
    IF i > Len(es) THEN g
    ELSE BuildGraphFrom(add_edge(g, es[i][1], es[i][2], es[i][3]), es, i + 1)

(***************************************************************************)
(* nx.dijkstra_path / nx.dijkstra_path_length: the label-setting search of *)
(* networkx (_dijkstra_multisource).  dist holds the final distances of    *)
(* the extracted nodes, seen the tentative ones, fringe the heap of        *)
(* (distance, counter, node), paths the route found to every seen node.    *)
(***************************************************************************)
SearchIdle == [dist |-> << >>, seen |-> << >>, fringe |-> {}, paths |-> << >>,
               c |-> 0, stop |-> FALSE, error |-> "none"]

SearchStart(source) ==
    [dist |-> << >>, seen |-> (source :> 0), fringe |-> {<<0, 0, source>>},
     paths |-> (source :> <<source>>), c |-> 1, stop |-> FALSE, error |-> "none"]

(* variant: a first-in first-out queue instead of a heap *)
HeapMin_Fifo(fringe) ==
    CHOOSE e \in fringe : \A f \in fringe : e[2] <= f[2]

(* heappop: the least (distance, counter, node) of the heap *)
HeapMin(fringe) ==
    CHOOSE e \in fringe :
        \A f \in fringe : e[1] < f[1] \/ (e[1] = f[1] /\ e[2] <= f[2])

(* the body of "for u, e in G_succ[v].items()" for one neighbour u of v *)
RelaxOne(g, s, v, u) ==
    LET vu_dist == s.dist[v] + g.weight[<<v, u>>] IN
    IF u \in DOMAIN s.dist
    THEN IF vu_dist < s.dist[u] THEN [s EXCEPT !.error = "ValueError"] ELSE s
    ELSE IF u \notin DOMAIN s.seen \/ vu_dist < s.seen[u]
         THEN [s EXCEPT !.seen   = (u :> vu_dist) @@ @,
                        !.fringe = @ \cup {<<vu_dist, s.c, u>>},
                        !.c      = @ + 1,
                        !.paths  = (u :> Append(s.paths[v], u)) @@ @]
         ELSE s

RECURSIVE Relax(_, _, _, _)
Relax(g, s, v, i) ==
    IF i > Len(g.adj[v]) \/ s.error # "none" THEN s
    ELSE Relax(g, RelaxOne(g, s, v, g.adj[v][i]), v, i + 1)

(* one turn of "while fringe": pop, skip or settle, stop at the target, relax *)
SearchStep(g, s, target) ==
    LET e     == HeapMin(s.fringe)
        d     == e[1]
        v     == e[3]
        rest  == [s EXCEPT !.fringe = @ \ {e}]
    IN  IF v \in DOMAIN s.dist THEN rest
        ELSE LET set == [rest EXCEPT !.dist = (v :> d) @@ @] IN
             IF v = target THEN [set EXCEPT !.stop = TRUE]
             ELSE Relax(g, set, v, 1)

SearchOver(s) == s.stop \/ s.fringe = {} \/ s.error # "none"

RECURSIVE SearchRun(_, _, _)
SearchRun(g, s, target) ==
    IF SearchOver(s) THEN s ELSE SearchRun(g, SearchStep(g, s, target), target)

(* what the call raises once the search is over: "none" when it returns *)
SearchOutcome(s, target) ==
    IF s.error # "none" THEN s.error
    ELSE IF target \in DOMAIN s.dist THEN "none" ELSE "NetworkXNoPath"

(***************************************************************************)
(* The optimization model: LpProblem("ShortestPath", LpMinimize) with one  *)
(* binary variable per key of `edges` (variable i stands for x[edges[i]]), *)
(* the objective sum of edges[e] * x[e], and one flow-balance constraint   *)
(* per town: sum of x over `plus` minus sum of x over `minus` equals rhs.  *)
(***************************************************************************)
EmptyModel == [objective |-> << >>, constraints |-> {}]

(* variant: the inflow read at the first town of the key, e[0] == t *)
inflow_FirstTown(es, t) == {i \in Idx(es) : es[i][1] = t}

inflow(es, t) == {i \in Idx(es) : es[i][2] = t}

outflow(es, t) == {i \in Idx(es) : es[i][1] = t}

(* variant: the balance of the other towns written inflow - inflow == 0 *)
FlowBalance_Loose(es, t) ==
    IF t = "Origin"
    THEN [town |-> t, plus |-> outflow(es, t), minus |-> inflow(es, t), rhs |-> 1]
    ELSE IF t = "Destination"
    THEN [town |-> t, plus |-> inflow(es, t), minus |-> outflow(es, t), rhs |-> 1]
    ELSE [town |-> t, plus |-> inflow(es, t), minus |-> inflow(es, t), rhs |-> 0]

FlowBalance(es, t) ==
    IF t = "Origin"
    THEN [town |-> t, plus |-> outflow(es, t), minus |-> inflow(es, t), rhs |-> 1]
    ELSE IF t = "Destination"
    THEN [town |-> t, plus |-> inflow(es, t), minus |-> outflow(es, t), rhs |-> 1]
    ELSE [town |-> t, plus |-> inflow(es, t), minus |-> outflow(es, t), rhs |-> 0]

(* variant: the objective counts the selected entries *)
Objective_Unit(es) == [i \in Idx(es) |-> 1]

Objective(es) == [i \in Idx(es) |-> es[i][3]]

BuildModelFrom(es) ==
    [objective   |-> Objective(es),
     constraints |-> {FlowBalance(es, t) : t \in towns(es)}]

Assignments(m) == [DOMAIN m.objective -> {0, 1}]

Satisfies(a, c) == SumOver(a, c.plus) - SumOver(a, c.minus) = c.rhs

Feasible(m, a) == \A c \in m.constraints : Satisfies(a, c)

Cost(m, a) == SumOver([i \in DOMAIN a |-> m.objective[i] * a[i]], DOMAIN a)

(* model.solve(): the assignments the solver may return as optimal *)
Optimal(m) ==
    LET F == {a \in Assignments(m) : Feasible(m, a)} IN
    {a \in F : \A b \in F : Cost(m, a) <= Cost(m, b)}

Key(e) == <<e[1], e[2]>>

(* edges[k] for a key k of the dict *)
Lookup(es, k) == es[CHOOSE i \in Idx(es) : Key(es[i]) = k][3]

(* opt_path = [e for e in edges if x[e].value() == 1] *)
Selected(es, a) ==
    LET chosen == SelectSeq([i \in Idx(es) |-> i], LAMBDA i : a[i] = 1)
    IN  [k \in 1..Len(chosen) |-> Key(es[chosen[k]])]

(* [opt_path[0][0]] + [e[1] for e in opt_path] *)
PathString(sel) == <<sel[1][1]>> \o [k \in 1..Len(sel) |-> sel[k][2]]

(* sum(edges[e] for e in opt_path) *)
SelectedDistance(es, sel) ==
    SumOver([k \in 1..Len(sel) |-> Lookup(es, sel[k])], 1..Len(sel))

(***************************************************************************)
(* The inputs explored: the dict of the script, and every dict of at most  *)
(* MaxEdges entries over SmallTowns with weights 0..MaxWeight, no entry    *)
(* from a town to itself and no two entries between the same two towns.    *)
(***************************************************************************)
SmallEntries ==
    {Edge(u, v, w) : u \in SmallTowns, v \in SmallTowns, w \in 0..MaxWeight}

(* unit-weight entries, for the runs that study the flow-balance constraints *)
FlowEntries == {Edge(u, v, 1) : u \in SmallTowns, v \in SmallTowns}

(* any entry a dict can hold: negative weights and self-loops included *)
RawWeights == {-1, 0, 1}

RawEntries ==
    {Edge(u, v, w) : u \in SmallTowns, v \in SmallTowns, w \in RawWeights}

SamePair(e, f) == {e[1], e[2]} = {f[1], f[2]}

(* the Network Model invariant of the design: no self-loop, no negative    *)
(* weight, at most one entry between two towns                             *)
IsNetwork(es) ==
    /\ \A i \in Idx(es) : es[i][1] # es[i][2] /\ es[i][3] >= 0
    /\ \A i, j \in Idx(es) : i # j => ~SamePair(es[i], es[j])

(* a dict holds a key (u, v) once *)
IsDict(es) ==
    \A i, j \in Idx(es) : i # j => <<es[i][1], es[i][2]>> # <<es[j][1], es[j][2]>>

InitOn(es) ==
    /\ edges = es
    /\ pc = "graph"
    /\ raised = "none"
    /\ G = EmptyGraph
    /\ search = SearchIdle
    /\ shortest_path = << >>
    /\ shortest_distance = 0
    /\ model = EmptyModel
    /\ x = << >>
    /\ status = "NotSolved"
    /\ opt_path = << >>
    /\ opt_path_str = << >>
    /\ opt_distance = 0

Init ==
    \/ InitOn(BuiltinEdges)
    \/ \E n \in 1..MaxEdges : \E es \in [1..n -> SmallEntries] :
          IsNetwork(es) /\ InitOn(es)

InitFlow ==
    \E n \in 1..MaxFlowEdges : \E es \in [1..n -> FlowEntries] :
        IsNetwork(es) /\ InitOn(es)

InitRaw ==
    \E n \in 1..MaxRawEdges : \E es \in [1..n -> RawEntries] :
        IsDict(es) /\ InitOn(es)

(* lines 29-31 *)
BuildGraph ==
    /\ pc = "graph"
    /\ G' = BuildGraphFrom(EmptyGraph, edges, 1)
    /\ pc' = "dijkstra_path"
    /\ UNCHANGED <<edges, raised, search, shortest_path, shortest_distance,
                   model, x, status, opt_path, opt_path_str, opt_distance>>

(* line 42, entry of the call: the source must be a node of G *)
PathSearchStart ==
    /\ pc = "dijkstra_path"
    /\ IF "Origin" \notin G.nodes
       THEN /\ raised' = "NodeNotFound"
            /\ pc' = "failed"
            /\ UNCHANGED search
       ELSE /\ search' = SearchStart("Origin")
            /\ pc' = "searching"
            /\ UNCHANGED raised
    /\ UNCHANGED <<edges, G, shortest_path, shortest_distance,
                   model, x, status, opt_path, opt_path_str, opt_distance>>

(* line 42, one turn of the search loop *)
PathSearchStep ==
    /\ pc = "searching"
    /\ ~SearchOver(search)
    /\ search' = SearchStep(G, search, "Destination")
    /\ UNCHANGED <<edges, pc, raised, G, shortest_path, shortest_distance,
                   model, x, status, opt_path, opt_path_str, opt_distance>>

(* line 42, return of the call *)
PathSearchEnd ==
    /\ pc = "searching"
    /\ SearchOver(search)
    /\ LET out == SearchOutcome(search, "Destination") IN
       IF out = "none"
       THEN /\ shortest_path' = search.paths["Destination"]
            /\ pc' = "dijkstra_path_length"
            /\ UNCHANGED raised
       ELSE /\ raised' = out
            /\ pc' = "failed"
            /\ UNCHANGED shortest_path
    /\ UNCHANGED <<edges, G, search, shortest_distance,
                   model, x, status, opt_path, opt_path_str, opt_distance>>

(* line 43: the search is run a second time, for the length *)
PathLength ==
    /\ pc = "dijkstra_path_length"
    /\ LET s   == SearchRun(G, SearchStart("Origin"), "Destination")
           out == SearchOutcome(s, "Destination")
       IN  IF out = "none"
           THEN /\ shortest_distance' = s.dist["Destination"]
                /\ pc' = "model"
                /\ UNCHANGED raised
           ELSE /\ raised' = out
                /\ pc' = "failed"
                /\ UNCHANGED shortest_distance
    /\ UNCHANGED <<edges, G, search, shortest_path,
                   model, x, status, opt_path, opt_path_str, opt_distance>>

(* lines 49-66 *)
BuildModel ==
    /\ pc = "model"
    /\ model' = BuildModelFrom(edges)
    /\ pc' = "solve"
    /\ UNCHANGED <<edges, raised, G, search, shortest_path, shortest_distance,
                   x, status, opt_path, opt_path_str, opt_distance>>

(* line 68: the status is not read afterwards and nothing is raised; when  *)
(* no assignment is feasible the values left in the variables are whatever *)
(* the solver stopped with.                                                *)
Solve ==
    /\ pc = "solve"
    /\ IF Optimal(model) # {}
       THEN /\ x' \in Optimal(model)
            /\ status' = "Optimal"
       ELSE /\ x' \in Assignments(model)
            /\ status' = "Infeasible"
    /\ pc' = "decode"
    /\ UNCHANGED <<edges, raised, G, search, shortest_path, shortest_distance,
                   model, opt_path, opt_path_str, opt_distance>>

(* lines 69-72: opt_path[0] raises IndexError on an empty selection *)
Decode ==
    /\ pc = "decode"
    /\ LET sel == Selected(edges, x) IN
       /\ opt_path' = sel
       /\ IF sel = << >>
          THEN /\ raised' = "IndexError"
               /\ pc' = "failed"
               /\ UNCHANGED <<opt_path_str, opt_distance>>
          ELSE /\ opt_path_str' = PathString(sel)
               /\ opt_distance' = SelectedDistance(edges, sel)
               /\ pc' = "success"
               /\ UNCHANGED raised
    /\ UNCHANGED <<edges, G, search, shortest_path, shortest_distance,
                   model, x, status>>

(* line 82: st.success *)
Complete ==
    /\ pc = "success"
    /\ pc' = "done"
    /\ UNCHANGED <<edges, raised, G, search, shortest_path, shortest_distance,
                   model, x, status, opt_path, opt_path_str, opt_distance>>

Next ==
    \/ BuildGraph
    \/ PathSearchStart
    \/ PathSearchStep
    \/ PathSearchEnd
    \/ PathLength
    \/ BuildModel
    \/ Solve
    \/ Decode
    \/ Complete

Spec == Init /\ [][Next]_vars

(* the same run on unit-weight networks of up to MaxFlowEdges entries *)
SpecFlow == InitFlow /\ [][Next]_vars

(* the same run on any dict of up to MaxRawEdges entries *)
SpecRaw == InitRaw /\ [][Next]_vars

(***************************************************************************)
(* Reference notions the properties are stated with.  They are computed    *)
(* from `edges` alone, by enumerating every simple route, and read none    *)
(* of the definitions above.                                               *)
(***************************************************************************)
Last(p) == p[Len(p)]

Range(p) == {p[k] : k \in 1..Len(p)}

Least(S) == CHOOSE m \in S : \A n \in S : m <= n

(* the towns one declared entry away, along the declared orientation *)
DirectedSucc(es) ==
    [t \in AllTowns |-> {es[i][2] : i \in {j \in Idx(es) : es[j][1] = t}}]

(* the towns one declared entry away, in either direction *)
UndirectedSucc(es) ==
    [t \in AllTowns |-> DirectedSucc(es)[t] \cup
                        {es[i][1] : i \in {j \in Idx(es) : es[j][2] = t}}]

RECURSIVE SimplePaths(_, _, _)
SimplePaths(succ, p, target) ==
    IF Last(p) = target THEN {p}
    ELSE UNION {SimplePaths(succ, Append(p, n), target) :
                n \in succ[Last(p)] \ Range(p)}

DirectedPaths(es, from, to) == SimplePaths(DirectedSucc(es), <<from>>, to)

UndirectedPaths(es, from, to) == SimplePaths(UndirectedSucc(es), <<from>>, to)

(* the weights of the entries that join u to v *)
DirectedStep(es, u, v) ==
    {es[i][3] : i \in {j \in Idx(es) : es[j][1] = u /\ es[j][2] = v}}

UndirectedStep(es, u, v) == DirectedStep(es, u, v) \cup DirectedStep(es, v, u)

RECURSIVE DirectedWeight(_, _)
DirectedWeight(es, p) ==
    IF Len(p) < 2 THEN 0
    ELSE Least(DirectedStep(es, p[1], p[2])) + DirectedWeight(es, Tail(p))

RECURSIVE UndirectedWeight(_, _)
UndirectedWeight(es, p) ==
    IF Len(p) < 2 THEN 0
    ELSE Least(UndirectedStep(es, p[1], p[2])) + UndirectedWeight(es, Tail(p))

(* a route from Origin to Destination stepping along declared entries *)
IsUndirectedRoute(es, p) ==
    /\ Len(p) >= 1
    /\ p[1] = "Origin"
    /\ Last(p) = "Destination"
    /\ \A k \in 1..(Len(p) - 1) : UndirectedStep(es, p[k], p[k + 1]) # {}

(* the true distance of town v from Origin in the undirected network *)
TrueDistance(es, v) ==
    Least({UndirectedWeight(es, p) : p \in UndirectedPaths(es, "Origin", v)})

(* the least weight of a route that follows the declared orientations *)
DirectedDistance(es) ==
    Least({DirectedWeight(es, p) : p \in DirectedPaths(es, "Origin", "Destination")})

(* every town of the network is joined to every other *)
Connected(es) ==
    \A t \in towns(es) : \A u \in towns(es) : UndirectedPaths(es, t, u) # {}

(* the declared orientations hold no directed cycle *)
Acyclic(es) ==
    \A i \in Idx(es) : DirectedPaths(es, es[i][2], es[i][1]) = {}

(* the entries selected by assignment a are exactly the entries of one     *)
(* simple route from Origin to Destination                                 *)
RECURSIVE WalkFrom(_, _, _, _)
WalkFrom(es, t, left, seenTowns) ==
    IF t = "Destination" THEN left = {}
    ELSE LET out == {i \in left : es[i][1] = t} IN
         /\ Cardinality(out) = 1
         /\ LET i == CHOOSE j \in out : TRUE IN
            /\ es[i][2] \notin seenTowns
            /\ WalkFrom(es, es[i][2], left \ {i}, seenTowns \cup {es[i][2]})

OnePath(es, a) ==
    WalkFrom(es, "Origin", {i \in Idx(es) : a[i] = 1}, {"Origin"})

(* the decoded sequence is a Path that uses each selected entry once, in   *)
(* the order of the sequence                                               *)
IsDecodedPath(es, sel, p) ==
    /\ Len(p) = Len(sel) + 1
    /\ p[1] = "Origin"
    /\ Last(p) = "Destination"
    /\ \A k \in 1..Len(sel) :
          /\ sel[k] = <<p[k], p[k + 1]>>
          /\ \E i \in Idx(es) : es[i][1] = p[k] /\ es[i][2] = p[k + 1]
    /\ \A k, l \in 1..Len(sel) : k # l => sel[k] # sel[l]

SearchReturned == pc \in {"model", "solve", "decode", "success", "done"}
                  \/ (pc = "failed" /\ raised = "IndexError")

OptimizerReturned == pc \in {"success", "done"}

RunOver == pc \in {"done", "failed"}

(***************************************************************************)
(* C1.  Cross-method equivalence: on every connected network with          *)
(* non-negative weights, the distance returned by the Dijkstra search      *)
(* equals the distance returned by the optimization model (whenever the    *)
(* model was solved to optimality).                                        *)
(***************************************************************************)
C1_CrossMethodEquivalence ==
    (pc = "done" /\ status = "Optimal" /\ IsNetwork(edges) /\ Connected(edges))
        => shortest_distance = opt_distance

C3_BothSolversFail ==
    (RunOver /\ "Origin" \in towns(edges) /\ "Destination" \notin towns(edges))
        => /\ raised = "NetworkXNoPath"
           /\ shortest_path = << >>
           /\ status = "Infeasible"
           /\ opt_path_str = << >>

(***************************************************************************)
(* C4.  A dict with a negative weight, a self-loop or two entries between  *)
(* the same two towns fails at the building of the network with            *)
(* InvalidEdgeError, before either solver starts.                          *)
(***************************************************************************)
C4_InvalidEdgeRejected ==
    (~IsNetwork(edges) /\ pc # "graph")
        => pc = "failed" /\ raised = "InvalidEdgeError"

(***************************************************************************)
(* C5 as stated.  Once the constraints are built (the model is not         *)
(* changed afterwards), every binary assignment that satisfies all         *)
(* flow-balance constraints selects exactly the entries of one route from  *)
(* Origin to Destination.                                                  *)
(***************************************************************************)
C5_FeasibleIsOnePath ==
    pc = "solve" =>
        \A a \in Assignments(model) : Feasible(model, a) => OnePath(edges, a)

(***************************************************************************)
(* C5 as amended.  When the declared orientations hold no directed cycle,  *)
(* once the constraints are built, every binary assignment that satisfies  *)
(* all flow-balance constraints selects exactly the entries of one route   *)
(* from Origin to Destination.                                             *)
(***************************************************************************)
C5_AcyclicFeasibleIsOnePath ==
    (pc = "solve" /\ Acyclic(edges)) =>
        \A a \in Assignments(model) : Feasible(model, a) => OnePath(edges, a)

(* C5, witness: an acyclic network of four entries or more whose built     *)
(* constraints admit several assignments, one of them a route of two      *)
(* entries or more                                                         *)
C5_Witness ==
    /\ pc = "solve"
    /\ Acyclic(edges)
    /\ Len(edges) >= 4
    /\ \E a \in Assignments(model) :
          /\ Feasible(model, a)
          /\ OnePath(edges, a)
          /\ Cardinality({i \in Idx(edges) : a[i] = 1}) >= 2
    /\ Cardinality({a \in Assignments(model) : Feasible(model, a)}) >= 2

(***************************************************************************)
(* C6.  Whenever the optimization is solved and the decoding returns a     *)
(* node sequence, the sequence is a Path: it starts at Origin, ends at     *)
(* Destination, every consecutive pair is a declared entry and every       *)
(* selected entry is used once (otherwise the decoding fails).             *)
(***************************************************************************)
C6_DecodedIsPath ==
    (OptimizerReturned /\ status = "Optimal")
        => IsDecodedPath(edges, opt_path, opt_path_str)

(***************************************************************************)
(* C7.  Whenever the distance of the search and the distance of the        *)
(* solved optimization differ, the run does not reach its successful       *)
(* completion.                                                             *)
(***************************************************************************)
C7_DivergentCostsSurface ==
    (OptimizerReturned /\ status = "Optimal" /\ shortest_distance # opt_distance)
        => pc # "done"

(***************************************************************************)
(* C8.  On a network with non-negative weights where Destination can be    *)
(* reached from Origin with every entry usable in both directions, the     *)
(* search returns: the route starts at Origin, ends at Destination, steps  *)
(* only along declared entries, and the distance reported is the sum of    *)
(* the weights along the route and the least weight over all routes.       *)
(***************************************************************************)
C8_ShortestPathCorrect ==
    (IsNetwork(edges) /\ UndirectedPaths(edges, "Origin", "Destination") # {}) =>
        /\ ~(pc = "failed" /\ raised # "IndexError")
        /\ SearchReturned =>
              /\ IsUndirectedRoute(edges, shortest_path)
              /\ shortest_distance = UndirectedWeight(edges, shortest_path)
              /\ shortest_distance = TrueDistance(edges, "Destination")

(* C8, witness: a completed run whose route of two steps or more is        *)
(* lighter than another route and crosses an entry against its declared    *)
(* orientation                                                             *)
C8_Witness ==
    /\ pc = "done"
    /\ IsNetwork(edges)
    /\ Len(shortest_path) >= 3
    /\ \E p \in UndirectedPaths(edges, "Origin", "Destination") :
          UndirectedWeight(edges, p) > shortest_distance
    /\ \E k \in 1..(Len(shortest_path) - 1) :
          DirectedStep(edges, shortest_path[k], shortest_path[k + 1]) = {}

(* C9, first part: every extracted (visited) town holds its true least     *)
(* distance from Origin.                                                   *)
C9_Settled ==
    \A v \in DOMAIN search.dist : search.dist[v] = TrueDistance(edges, v)

(* C9, second part: the search is over exactly when Destination has been   *)
(* extracted or the frontier is empty.                                     *)
C9_EndsExactly ==
    pc = "searching" =>
        (SearchOver(search) <=>
            ("Destination" \in DOMAIN search.dist \/ search.fringe = {}))

(* C9, third part: a turn of the search loop keeps every visited town      *)
(* visited with its distance unchanged, settles at most one town, and is   *)
(* taken only while Destination is not extracted and the frontier is not   *)
(* empty.                                                                  *)
C9_StepKeepsVisited ==
    (pc = "searching" /\ pc' = "searching") =>
        /\ \A v \in DOMAIN search.dist :
              v \in DOMAIN search'.dist /\ search'.dist[v] = search.dist[v]
        /\ Cardinality(DOMAIN search'.dist) <= Cardinality(DOMAIN search.dist) + 1
        /\ "Destination" \notin DOMAIN search.dist
        /\ search.fringe # {}

====
